---------------------------- MODULE Spec2Model ----------------------------
(***************************************************************************)
(* Model of the Karhunen-Loeve transform engine of src/src/klt.cc (class   *)
(* KLT): construction and destruction of its buffers, the caller's write   *)
(* of the input window, and transform() with acorr_matrix(), eigendecomp() *)
(* and the projection and weighting loops.                                 *)
(*                                                                         *)
(* Buffers are functions over 0..size-1, indexed as in the source.         *)
(* std::complex<float> values are pairs <<re, im>> of integers (the        *)
(* samples are small Gaussian integers, for which float arithmetic is      *)
(* exact).  The four LAPACKE routines are not code of the repository: they *)
(* are modelled by their interface (which buffers and how many entries     *)
(* each one reads and writes, its status code, the found count of the      *)
(* search), with stand-in values for the numbers they compute.  Windowing  *)
(* is the one src/src/klt.hh selects (KLT_SUPPORT_WIN 0).  The eigenvalue  *)
(* normalisation of transform() is modelled behind its run-time switch     *)
(* eval_normalized.  Spec is the build klt.hh selects (KLT_SUPPORT_EVALN   *)
(* 0: the switch is always 0); SpecEvalN is the build with                 *)
(* KLT_SUPPORT_EVALN 1, in which the caller chooses the switch.            *)
(*                                                                         *)
(* An eigenvalue (float) is the fraction eval_buf[i] / eval_den[i] in      *)
(* lowest terms; a denominator 0 marks a value that is not finite.  The    *)
(* rounding of a float product is not modelled: a finite product is the    *)
(* exact fraction.                                                         *)
(***************************************************************************)
EXTENDS Integers, Sequences, FiniteSets, TLC

\* Bounds of the model.
MaxInLen == 3
MaxCalls == 2
\* The largest magnitude a float of the model holds: a result beyond it is
\* held at the limit, as a float overflows to infinity.
FloatLimit == 1000

VARIABLES
  phase,          \* "none" | "live" | "ctor_failed" | "destroyed"
  heap,           \* buffers obtained from posix_memalign and not yet freed
  ctor_err,       \* buffer named by the constructor's exception, or "none"
  in_len, acm_order, num_eig,                     \* configuration
  eval_normalized,                                \* configuration: the switch
  in_buf, ac_buf, eval_buf, kltc_buf, kltb_buf,   \* buffers
  eval_den,       \* the denominator of each eval_buf entry
  in_used,        \* history: in_buf as the last transform() call read it
  acm,            \* history: ac_buf as acorr_matrix() left it in the last call
  evec,           \* history: kltb_buf as eigendecomp() left it in the last call
  eval_dec,       \* history: eval_buf as eigendecomp() left it in the last call
  den_dec,        \* history: eval_den as eigendecomp() left it in the last call
  eval_nrm,       \* history: eval_buf and eval_den as transform() held them
                  \* when it entered the projection loop in the last call
  eval_src,       \* provenance of each eval_buf entry
  kltb_src,       \* provenance of each kltb_buf column
  scratch,        \* provenance of d_buf, e_buf, tau_buf, ib_buf, is_buf, if_buf
  steps,          \* the stages the last transform() executed, in order
  err,            \* what the last transform() threw, or NoErr
  num_eig_found,  \* the found count the search reported in the last call
  ncalls          \* transform() calls so far

vars == << phase, heap, ctor_err, in_len, acm_order, num_eig, eval_normalized,
           in_buf, ac_buf, eval_buf, eval_den, kltc_buf, kltb_buf, in_used,
           acm, evec, eval_dec, den_dec, eval_nrm, eval_src, kltb_src, scratch,
           steps, err, num_eig_found, ncalls >>

---------------------------------------------------------------------------
\* Complex arithmetic (std::complex<float>).

CZero == <<0, 0>>
COne == <<1, 0>>
Fl(x) == IF x > FloatLimit THEN FloatLimit
         ELSE IF x < 0 - FloatLimit THEN 0 - FloatLimit ELSE x
CAdd(a, b) == <<Fl(a[1] + b[1]), Fl(a[2] + b[2])>>
CMul(a, b) ==
  <<Fl(a[1] * b[1] - a[2] * b[2]), Fl(a[1] * b[2] + a[2] * b[1])>>
CConj(a) == <<a[1], 0 - a[2]>>
CNeg(a) == <<0 - a[1], 0 - a[2]>>

\* A buffer of n cells, all holding v.
Buf(n, v) == [i \in 0 .. n - 1 |-> v]

\* A store into a buffer.
Store(buf, i, v) == [j \in DOMAIN buf |-> IF j = i THEN v ELSE buf[j]]

\* The input windows a caller writes: silence, a window whose phase turns by
\* a quarter at each sample, and one that starts with a quarter turn back.
CI == <<0, 1>>
Windows(len) ==
  { [t \in 0 .. len - 1 |-> CZero],
    [t \in 0 .. len - 1 |-> IF t % 2 = 0 THEN COne ELSE CI],
    [t \in 0 .. len - 1 |-> IF t = 0 THEN CI ELSE COne] }

\* What uninitialised memory may hold (posix_memalign does not clear it).
Junk == {0, 1}

---------------------------------------------------------------------------
\* Float arithmetic of the eigenvalues (float).

\* A float is <<n, d>>: the fraction n/d in lowest terms when d > 0, and
\* +inf, -inf or NaN when d = 0.  The sign of a zero is not kept (no value
\* of the model is negative).
FZero == <<0, 1>>
FOne == <<1, 1>>
PosInf == <<1, 0>>
NegInf == <<-1, 0>>
NaN == <<0, 0>>

RECURSIVE Gcd(_, _)
Gcd(a, b) == IF b = 0 THEN a ELSE Gcd(b, a % b)

Abs(x) == IF x < 0 THEN 0 - x ELSE x

\* The float n/d, d > 0.
Frac(n, d) ==
  LET g == Gcd(Abs(n), d) IN <<n \div g, d \div g>>

Finite(a) == a[2] > 0
Sign(a) == IF a[1] > 0 THEN 1 ELSE IF a[1] < 0 THEN -1 ELSE 0

\* a < b on floats: false when either is NaN.
FLess(a, b) ==
  IF a = NaN \/ b = NaN THEN FALSE
  ELSE IF Finite(a) /\ Finite(b) THEN a[1] * b[2] < b[1] * a[2]
  ELSE IF a = b THEN FALSE
  ELSE a = NegInf \/ b = PosInf

\* std::max(a, b): (a < b) ? b : a.
StdMax(a, b) == IF FLess(a, b) THEN b ELSE a

\* 1.0f / x.
FRecip(x) ==
  IF x = NaN THEN NaN
  ELSE IF ~Finite(x) THEN FZero
  ELSE IF x[1] = 0 THEN PosInf
  ELSE IF x[1] > 0 THEN Frac(x[2], x[1])
  ELSE Frac(0 - x[2], 0 - x[1])

\* a * b on floats.
FMul(a, b) ==
  IF a = NaN \/ b = NaN THEN NaN
  ELSE IF Finite(a) /\ Finite(b) THEN Frac(a[1] * b[1], a[2] * b[2])
  ELSE IF Sign(a) * Sign(b) = 0 THEN NaN
  ELSE IF Sign(a) * Sign(b) > 0 THEN PosInf
  ELSE NegInf

\* The floats a buffer of numerators and one of denominators hold.
Floats(num, den) == [k \in DOMAIN num |-> <<num[k], den[k]>>]

---------------------------------------------------------------------------
\* Constructor and destructor.

AllocOrder ==
  << "in_buf", "ac_buf", "eval_buf", "kltc_buf", "kltb_buf", "d_buf",
     "e_buf", "tau_buf", "ib_buf", "is_buf", "if_buf" >>

\* The weights of the upper half and of the second byte of a 32-bit int.
Half == 65536
Byte == 256

\* a * b on int (32 bits), for operands that are not negative: the product
\* modulo 2^32 read as a signed value.  A product beyond INT_MAX is an
\* overflow the language leaves undefined; the wrapped value is what a build
\* that does not trap on overflow computes (one that traps ends the program
\* there).
IntMul(a, b) ==
  LET ah == a \div Half
      al == a % Half
      bh == b \div Half
      bl == b % Half
      t == (al \div Byte) * bl
      u == (al % Byte) * bl
      lo_s == (t % Byte) * Byte + (u % Half)
      lo == lo_s % Half
      hi_p == (t \div Byte) + (u \div Half) + (lo_s \div Half)
      cross == (((ah * bl) % Half) + ((al * bh) % Half)) % Half
      hi == (hi_p + cross) % Half
  IN  IF hi >= Half \div 2 THEN (hi - Half) * Half + lo ELSE hi * Half + lo

\* x / 2 on int: the quotient truncated towards zero.
IntHalf(x) == IF x < 0 THEN 0 - ((0 - x) \div 2) ELSE x \div 2

ac_size(order) == IntHalf(IntMul(order + 1, order))
kltb_size(order, neig) == IntMul(order, neig)

\* Provenance tags: gen is "uninit" (never written), "zero" (memset),
\* "cur" (written by the call in progress or just ended) or "old" (written
\* by an earlier call); idx is the 1-based
\* ascending index of the eigenvalue, 0 when the cell holds none.
Tag(g, i) == [gen |-> g, idx |-> i]
ScratchNames == {"d_buf", "e_buf", "tau_buf", "ib_buf", "is_buf", "if_buf"}

NoErr == [step |-> "none", info |-> 0]

\* The buffers the constructor has allocated when allocation number k fails
\* (all of them when k = 0: no failure).
Allocated(k) ==
  IF k = 0 THEN {AllocOrder[p] : p \in 1 .. Len(AllocOrder)}
  ELSE {AllocOrder[p] : p \in 1 .. k - 1}

\* What becomes of the allocated buffers when the constructor throws: the
\* object was never constructed, so ~KLT() does not run and nothing frees
\* the raw pointers.
CtorThrowHeap(k) == Allocated(k)

\* KLT::KLT(in_len, eval_normalized, acm_order, num_eig); failAt is the
\* number of the allocation that fails (0: none), junk what the fresh memory
\* holds.
Construct(len, evn, order, neig, failAt, junk) ==
  /\ phase = "none"
  /\ in_len' = len
  /\ eval_normalized' = evn
  /\ acm_order' = order
  /\ num_eig' = neig
  /\ IF failAt = 0
     THEN /\ phase' = "live"
          /\ heap' = Allocated(0)
          /\ ctor_err' = "none"
     ELSE /\ phase' = "ctor_failed"
          /\ heap' = CtorThrowHeap(failAt)
          /\ ctor_err' = AllocOrder[failAt]
  /\ in_buf' = Buf(len, <<junk, junk>>)
  /\ ac_buf' = Buf(ac_size(order), <<junk, junk>>)
  /\ eval_buf' = Buf(order, junk)
  /\ eval_den' = Buf(order, 1)
  /\ kltc_buf' = Buf(neig, <<junk, junk>>)
  /\ kltb_buf' = Buf(kltb_size(order, neig), <<junk, junk>>)
  /\ in_used' = Buf(len, <<junk, junk>>)
  /\ acm' = Buf(ac_size(order), <<junk, junk>>)
  /\ evec' = Buf(kltb_size(order, neig), <<junk, junk>>)
  /\ eval_dec' = Buf(order, junk)
  /\ den_dec' = Buf(order, 1)
  /\ eval_nrm' = Buf(order, <<junk, 1>>)
  /\ eval_src' = Buf(order, Tag("uninit", 0))
  /\ kltb_src' = Buf(neig, Tag("uninit", 0))
  /\ scratch' = [b \in ScratchNames |-> "uninit"]
  /\ UNCHANGED << steps, err, num_eig_found, ncalls >>

\* No buffer, and the history of no call.
Empty == Buf(0, 0)

\* KLT::~KLT(): frees every buffer whose pointer is not NULL; the object and
\* what its buffers held are gone.
Destroy ==
  /\ phase = "live"
  /\ phase' = "destroyed"
  /\ heap' = heap \ {AllocOrder[p] : p \in 1 .. Len(AllocOrder)}
  /\ in_buf' = Empty
  /\ ac_buf' = Empty
  /\ eval_buf' = Empty
  /\ eval_den' = Empty
  /\ kltc_buf' = Empty
  /\ kltb_buf' = Empty
  /\ in_used' = Empty
  /\ acm' = Empty
  /\ evec' = Empty
  /\ eval_dec' = Empty
  /\ den_dec' = Empty
  /\ eval_nrm' = Empty
  /\ eval_src' = Empty
  /\ kltb_src' = Empty
  /\ scratch' = [b \in ScratchNames |-> "uninit"]
  /\ steps' = << >>
  /\ err' = NoErr
  /\ num_eig_found' = 0
  /\ UNCHANGED << ctor_err, in_len, acm_order, num_eig, eval_normalized,
                  ncalls >>

\* The caller fills the public in_buf before a transform() call.
WriteInput(w) ==
  /\ phase = "live"
  /\ ncalls < MaxCalls
  /\ in_buf' = w
  /\ UNCHANGED << phase, heap, ctor_err, in_len, acm_order, num_eig,
                  eval_normalized, ac_buf, eval_buf, eval_den, kltc_buf,
                  kltb_buf, in_used, acm, evec, eval_dec, den_dec, eval_nrm,
                  eval_src, kltb_src, scratch, steps, err, num_eig_found,
                  ncalls >>

---------------------------------------------------------------------------
\* KLT::acorr_matrix().

\* A lag accumulator that is not reset: it starts from what the cell held.
LagInitKept(old) == old

\* The accumulator of a lag starts from zero, whatever the cell held.
LagInit(old) == CZero

\* The inner loop of a lag: sum of in_buf[w2idx + aidx] * conj(in_buf[w2idx])
\* for w2idx from the given one while w2idx < in_len - aidx.
RECURSIVE LagSum(_, _, _, _, _)
LagSum(in, len, aidx, w2idx, acc) ==
  IF w2idx < len - aidx
  THEN LagSum(in, len, aidx, w2idx + 1,
              CAdd(acc, CMul(in[w2idx + aidx], CConj(in[w2idx]))))
  ELSE acc

\* The first loop: cells 0 .. acm_order-1 receive the lags.
AcorrLags(ac, in, len, order) ==
  [i \in DOMAIN ac |->
     IF i < order THEN LagSum(in, len, i, 0, LagInit(ac[i])) ELSE ac[i]]

\* The Toeplitz loops as the sequence of their copies <<aoidx, aiidx>>
\* (ac_buf[aoidx++] = ac_buf[aiidx]), in execution order.
RECURSIVE ToepCol(_, _, _)
ToepCol(aoidx, col_len, aiidx) ==
  IF aiidx < col_len
  THEN << <<aoidx, aiidx>> >> \o ToepCol(aoidx + 1, col_len, aiidx + 1)
  ELSE << >>

RECURSIVE ToepFill(_, _)
ToepFill(aoidx, col_len) ==
  IF col_len > 0
  THEN ToepCol(aoidx, col_len, 0) \o ToepFill(aoidx + col_len, col_len - 1)
  ELSE << >>

\* A Toeplitz fill whose first copied column is one entry too long.
ToeplitzCopiesLong(order) == ToepFill(order, order)

ToeplitzCopies(order) == ToepFill(order, order - 1)

RECURSIVE ApplyCopies(_, _)
ApplyCopies(ac, cs) ==
  IF cs = << >> THEN ac
  ELSE ApplyCopies(Store(ac, Head(cs)[1], ac[Head(cs)[2]]), Tail(cs))

acorr_matrix(ac, in, len, order) ==
  ApplyCopies(AcorrLags(ac, in, len, order), ToeplitzCopies(order))

---------------------------------------------------------------------------
\* The eigensolver library (LAPACKE), by its interface.

\* The status a routine returns when it fails: negative for an argument the
\* routine rejects, positive for eigenvalues or eigenvectors it did not get.
FailInfo(k) == IF k = 1 THEN -1 ELSE IF k = 2 THEN 2 ELSE IF k = 3 THEN 1 ELSE -4

\* A status check that takes only positive codes for failures.
FailedPositive(info) == info > 0

\* if (info): a non-zero status is a failure.
Failed(info) == info # 0

\* Stand-ins for the numbers the library computes from the matrix A that
\* acorr_matrix() built.  The eigenvalue of ascending index j (1-based) is
\* j times the lag-0 value: zero for the zero matrix, ascending otherwise.
EigVal(A, j) == A[0][1] * j

\* Entry t of the eigenvector of ascending index j, in the signal basis: a
\* phase progression by the lag-1 value (for order 2 and a unit lag-1 value
\* these are the eigenvectors (1, +-r1) of the matrix).
EigComp(A, j, t) ==
  LET r1 == IF A[1] = CZero THEN COne ELSE A[1]
  IN  IF t % 2 = 0 THEN COne
      ELSE IF j % 2 = 0 THEN r1 ELSE CNeg(r1)

\* Entry t of the same eigenvector in the tridiagonal basis.
TriComp(j, t) == IF t = j - 1 THEN COne ELSE CZero

\* What a cell of ac_buf holds once the reduction has overwritten the
\* matrix with the tridiagonal form and the reflectors.
Reduced == <<-1, -1>>

Log(s, name, info) ==
  [s EXCEPT !.steps = Append(@, [step |-> name, info |-> info])]

\* LAPACKE_chptrd(ap = ac_buf, d_buf, e_buf, tau_buf).
chptrd(s, info) ==
  Log([s EXCEPT !.ac = [i \in DOMAIN s.ac |-> Reduced],
                !.scr = [b \in ScratchNames |->
                           IF b \in {"d_buf", "e_buf", "tau_buf"}
                           THEN "cur" ELSE s.scr[b]]],
      "chptrd", info)

\* The index range the search is asked for.
il(order, neig) == order - neig + 1
iu(order, neig) == order

\* LAPACKE_sstebz('I', 'B', n, ..., il, iu, ..., d_buf, e_buf, &m, &nsplit,
\* w = eval_buf, ib_buf, is_buf): the first m entries of w receive the
\* eigenvalues il, il+1, ...; the rest of w is kept (the routine's use of it
\* as workspace is not modelled).
sstebz(s, order, lo, hi, m, info) ==
  Log([s EXCEPT
         !.eval = [k \in DOMAIN s.eval |->
                     IF k < m /\ lo + k <= hi THEN EigVal(s.A, lo + k)
                     ELSE s.eval[k]],
         !.evd = [k \in DOMAIN s.evd |->
                    IF k < m /\ lo + k <= hi THEN 1 ELSE s.evd[k]],
         !.evs = [k \in DOMAIN s.evs |->
                    IF k < m /\ lo + k <= hi THEN Tag("cur", lo + k)
                    ELSE s.evs[k]],
         !.scr = [b \in ScratchNames |->
                    IF b \in {"ib_buf", "is_buf"} THEN "cur" ELSE s.scr[b]]],
      "sstebz", info)

\* LAPACKE_cstein(n, d_buf, e_buf, m, w = eval_buf, ib_buf, is_buf,
\* z = kltb_buf, ldz = n, if_buf): column k < m of z receives the
\* eigenvector of w[k], in the tridiagonal basis.
cstein(s, order, m, info) ==
  Log([s EXCEPT
         !.kltb = [x \in DOMAIN s.kltb |->
                     IF x \div order < m
                     THEN TriComp(s.evs[x \div order].idx, x % order)
                     ELSE s.kltb[x]],
         !.kbs = [k \in DOMAIN s.kbs |-> IF k < m THEN s.evs[k] ELSE s.kbs[k]],
         !.scr = [b \in ScratchNames |->
                    IF b = "if_buf" THEN "cur" ELSE s.scr[b]]],
      "cstein", info)

\* LAPACKE_cupmtr('L', 'L', 'N', n, m, ap = ac_buf, tau_buf, c = kltb_buf,
\* ldc = n): the first m columns of c are rotated into the signal basis.
cupmtr(s, order, m, info) ==
  Log([s EXCEPT
         !.kltb = [x \in DOMAIN s.kltb |->
                     IF x \div order < m
                     THEN EigComp(s.A, s.kbs[x \div order].idx, x % order)
                     ELSE s.kltb[x]]],
      "cupmtr", info)

---------------------------------------------------------------------------
\* KLT::eigendecomp() and KLT::transform().

\* memset(eval_buf, 0, num_eig*sizeof(float)) and
\* memset(kltb_buf, 0, num_eig*acm_order*sizeof(std::complex<float>)).
ZeroOutputs(s, order, neig) ==
  [s EXCEPT
     !.eval = [k \in DOMAIN s.eval |-> IF k < neig THEN 0 ELSE s.eval[k]],
     !.evd = [k \in DOMAIN s.evd |-> IF k < neig THEN 1 ELSE s.evd[k]],
     !.evs = [k \in DOMAIN s.evs |->
                IF k < neig THEN Tag("zero", 0) ELSE s.evs[k]],
     !.kltb = [x \in DOMAIN s.kltb |->
                 IF x < neig * order THEN CZero ELSE s.kltb[x]],
     !.kbs = [k \in DOMAIN s.kbs |-> Tag("zero", 0)]]

\* throw std::runtime_error("LAPACKE_<step>() failed, info=<info>").
Throw(s, name, info) == [s EXCEPT !.err = [step |-> name, info |-> info]]

\* The status the routine number k returns in a call whose outcome is o.
Info(o, k) == IF o.fail = k THEN o.info ELSE 0

\* eigendecomp(): the four routines, nested as in the source; s.m is the
\* found count the search reports.
eigendecomp(s, order, neig, o) ==
  LET s1 == chptrd(s, Info(o, 1))
  IN
  IF Failed(Info(o, 1))
  THEN Throw(ZeroOutputs(s1, order, neig), "chptrd", Info(o, 1))
  ELSE
    LET s2 == [sstebz(s1, order, il(order, neig), iu(order, neig),
                      o.m, Info(o, 2)) EXCEPT !.m = o.m]
    IN
    IF Failed(Info(o, 2))
    THEN Throw(ZeroOutputs(s2, order, neig), "sstebz", Info(o, 2))
    ELSE
      LET s3 == cstein(s2, order, s2.m, Info(o, 3))
      IN
      IF Failed(Info(o, 3))
      THEN Throw(ZeroOutputs(s3, order, neig), "cstein", Info(o, 3))
      ELSE
        LET s4 == cupmtr(s3, order, s3.m, Info(o, 4))
        IN
        IF Failed(Info(o, 4))
        THEN Throw(ZeroOutputs(s4, order, neig), "cupmtr", Info(o, 4))
        ELSE s4

\* kltc_buf[cidx] = 0, then += in_buf[tidx] * conj(kltb_buf[cidx*order+tidx])
\* for tidx < acm_order.
ProjInit(old) == CZero

RECURSIVE ProjSum(_, _, _, _, _, _)
ProjSum(in, kltb, order, cidx, tidx, acc) ==
  IF tidx < order
  THEN ProjSum(in, kltb, order, cidx, tidx + 1,
               CAdd(acc, CMul(in[tidx], CConj(kltb[cidx * order + tidx]))))
  ELSE acc

\* A projection that multiplies by the eigenvector without conjugating it.
RECURSIVE ProjSumNoConj(_, _, _, _, _, _)
ProjSumNoConj(in, kltb, order, cidx, tidx, acc) ==
  IF tidx < order
  THEN ProjSumNoConj(in, kltb, order, cidx, tidx + 1,
                     CAdd(acc, CMul(in[tidx], kltb[cidx * order + tidx])))
  ELSE acc

ProjectNoConj(kltc, in, kltb, order, neig) ==
  [c \in DOMAIN kltc |->
     IF c < neig THEN ProjSumNoConj(in, kltb, order, c, 0, ProjInit(kltc[c]))
     ELSE kltc[c]]

Project(kltc, in, kltb, order, neig) ==
  [c \in DOMAIN kltc |->
     IF c < neig THEN ProjSum(in, kltb, order, c, 0, ProjInit(kltc[c]))
     ELSE kltc[c]]

\* A weighting whose inner loop stops one entry short of the column's end.
RECURSIVE WeightShort(_, _, _, _, _, _)
WeightShort(kltb, kltc, order, neig, cidx, tidx) ==
  IF cidx >= neig THEN kltb
  ELSE IF tidx >= order - 1
       THEN WeightShort(kltb, kltc, order, neig, cidx + 1, 0)
  ELSE WeightShort(Store(kltb, cidx * order + tidx,
                         CMul(kltb[cidx * order + tidx], kltc[cidx])),
                   kltc, order, neig, cidx, tidx + 1)

\* kltb_buf[cidx*order+tidx] *= kltc_buf[cidx], cidx < num_eig outer,
\* tidx < acm_order inner.
RECURSIVE Weight(_, _, _, _, _, _)
Weight(kltb, kltc, order, neig, cidx, tidx) ==
  IF cidx >= neig THEN kltb
  ELSE IF tidx >= order THEN Weight(kltb, kltc, order, neig, cidx + 1, 0)
  ELSE Weight(Store(kltb, cidx * order + tidx,
                    CMul(kltb[cidx * order + tidx], kltc[cidx])),
              kltc, order, neig, cidx, tidx + 1)

\* A new call: what the previous call wrote is old.
Age(tags) ==
  [k \in DOMAIN tags |->
     IF tags[k].gen = "cur" THEN Tag("old", tags[k].idx) ELSE tags[k]]

AgeScratch(scr) ==
  [b \in DOMAIN scr |-> IF scr[b] = "cur" THEN "old" ELSE scr[b]]

\* float max_eval = 0.0f.
MaxEvalInit == FZero

\* max_eval = std::max(eval_buf[eidx], max_eval) for eidx < num_eig.
RECURSIVE MaxEval(_, _, _, _)
MaxEval(ev, neig, eidx, max_eval) ==
  IF eidx < neig
  THEN MaxEval(ev, neig, eidx + 1, StdMax(ev[eidx], max_eval))
  ELSE max_eval

\* eval_buf[eidx] *= inv_max_eval for eidx < num_eig, inv_max_eval being
\* 1.0f / max_eval.
Scale(ev, neig, inv_max_eval) ==
  [k \in DOMAIN ev |-> IF k < neig THEN FMul(ev[k], inv_max_eval) ELSE ev[k]]

\* The normalisation stage of transform() on the floats ev: skipped unless
\* the switch is set.
Normalize(ev, neig, evn) ==
  IF evn # 0
  THEN Scale(ev, neig, FRecip(MaxEval(ev, neig, 0, MaxEvalInit)))
  ELSE ev

\* transform() on the buffers b (fields ac, eval, evd, kltc, kltb, evs, kbs,
\* scr) with the input window in and the library's outcome o: the buffers
\* and history it leaves.
Transform(b, in, len, order, neig, o) ==
  LET A == acorr_matrix(b.ac, in, len, order)
      s0 == [ac |-> A, A |-> A, eval |-> b.eval, evd |-> b.evd,
             kltb |-> b.kltb,
             evs |-> Age(b.evs), kbs |-> Age(b.kbs),
             scr |-> AgeScratch(b.scr), m |-> 0,
             steps |-> << [step |-> "acorr", info |-> 0] >>, err |-> NoErr]
      e == eigendecomp(s0, order, neig, o)
  IN
  IF e.err # NoErr
  THEN e @@ [kltc |-> b.kltc, evec |-> e.kltb, eval_dec |-> e.eval,
             den_dec |-> e.evd, eval_nrm |-> Floats(e.eval, e.evd)]
  ELSE
    LET n == Normalize(Floats(e.eval, e.evd), neig, eval_normalized)
        c == Project(b.kltc, in, e.kltb, order, neig)
        w == Weight(e.kltb, c, order, neig, 0, 0)
    IN [e EXCEPT !.eval = [k \in DOMAIN n |-> n[k][1]],
                 !.evd = [k \in DOMAIN n |-> n[k][2]],
                 !.kltb = w,
                 !.steps = @ \o << [step |-> "project", info |-> 0],
                                   [step |-> "weight", info |-> 0] >>]
       @@ [kltc |-> c, evec |-> e.kltb, eval_dec |-> e.eval,
           den_dec |-> e.evd, eval_nrm |-> n]

\* The outcomes of the library in one call: which routine fails (0: none),
\* with which status, and the found count of the search (0 when the search
\* does not run).
Outcomes(order, neig) ==
  { [fail |-> f, info |-> IF f = 0 THEN 0 ELSE FailInfo(f), m |-> m] :
      f \in 0 .. 4, m \in 0 .. neig } \
  { [fail |-> 1, info |-> FailInfo(1), m |-> m] : m \in 1 .. neig }

Buffers ==
  [ac |-> ac_buf, eval |-> eval_buf, evd |-> eval_den, kltc |-> kltc_buf,
   kltb |-> kltb_buf, evs |-> eval_src, kbs |-> kltb_src, scr |-> scratch]

\* transform(), called once the caller has filled in_buf.
transform(o) ==
  /\ phase = "live"
  /\ ncalls < MaxCalls
  /\ in_buf \in Windows(in_len)
  /\ \E r \in {Transform(Buffers, in_buf, in_len, acm_order, num_eig, o)} :
        /\ ac_buf' = r.ac
        /\ in_used' = in_buf
        /\ acm' = r.A
        /\ eval_buf' = r.eval
        /\ eval_den' = r.evd
        /\ kltc_buf' = r.kltc
        /\ kltb_buf' = r.kltb
        /\ evec' = r.evec
        /\ eval_dec' = r.eval_dec
        /\ den_dec' = r.den_dec
        /\ eval_nrm' = r.eval_nrm
        /\ eval_src' = r.evs
        /\ kltb_src' = r.kbs
        /\ scratch' = r.scr
        /\ steps' = r.steps
        /\ err' = r.err
        /\ num_eig_found' = r.m
  /\ ncalls' = ncalls + 1
  /\ UNCHANGED << phase, heap, ctor_err, in_len, acm_order, num_eig,
                  eval_normalized, in_buf >>

---------------------------------------------------------------------------
\* The driver's arguments (mainroutine() of src/test/klt.cc).

\* std::max and std::min on int.
Max(a, b) == IF a < b THEN b ELSE a
Min(a, b) == IF b < a THEN b ELSE a

\* const int in_len = std::max(m_lpick(arg++), 2).
ClampInLen(a) == Max(a, 2)
\* const int acm_order = std::max(std::min(m_lpick(arg++), in_len), 2).
ClampAcmOrder(a, len) == Max(Min(a, len), 2)
\* const int num_eig = std::max(std::min(m_lpick(arg++), acm_order), 1).
ClampNumEig(a, order) == Max(Min(a, order), 1)

\* The largest of the small values an argument takes.
MaxArg == 8
\* The smallest order whose (order + 1) * order is beyond INT_MAX, and the
\* smallest one for which the product wraps to a value that is not negative.
NegOrder == 46341
WrapOrder == 65536

\* The values m_lpick() returns: small ones, some of them out of range, and
\* for the window length and the order the two large ones.
SmallArgs == -1 .. MaxArg
Args == SmallArgs \cup {NegOrder, WrapOrder}

\* The driver reads its three arguments and clamps them.
ClampArgs(a1, a2, a3) ==
  /\ phase = "none"
  /\ in_len' = ClampInLen(a1)
  /\ acm_order' = ClampAcmOrder(a2, in_len')
  /\ num_eig' = ClampNumEig(a3, acm_order')
  /\ UNCHANGED << phase, heap, ctor_err, eval_normalized, in_buf, ac_buf,
                  eval_buf, eval_den, kltc_buf, kltb_buf, in_used, acm, evec,
                  eval_dec, den_dec, eval_nrm, eval_src, kltb_src, scratch,
                  steps, err, num_eig_found, ncalls >>

---------------------------------------------------------------------------
\* The specification.

Init ==
  /\ phase = "none"
  /\ heap = {}
  /\ ctor_err = "none"
  /\ in_len = 0
  /\ acm_order = 0
  /\ num_eig = 0
  /\ eval_normalized = 0
  /\ in_buf = Empty
  /\ ac_buf = Empty
  /\ eval_buf = Empty
  /\ eval_den = Empty
  /\ kltc_buf = Empty
  /\ kltb_buf = Empty
  /\ in_used = Empty
  /\ acm = Empty
  /\ evec = Empty
  /\ eval_dec = Empty
  /\ den_dec = Empty
  /\ eval_nrm = Empty
  /\ eval_src = Empty
  /\ kltb_src = Empty
  /\ scratch = [b \in ScratchNames |-> "uninit"]
  /\ steps = << >>
  /\ err = NoErr
  /\ num_eig_found = 0
  /\ ncalls = 0

\* The configurations a caller may pass: 2 <= acm_order <= in_len and
\* 1 <= num_eig <= acm_order.
Configs ==
  { c \in (2 .. MaxInLen) \X (2 .. MaxInLen) \X (1 .. MaxInLen) :
      c[2] <= c[1] /\ c[3] <= c[2] }

\* The build src/src/klt.hh selects (KLT_SUPPORT_EVALN 0): the constructor
\* takes no switch and transform() has no normalisation stage.
Next ==
  \/ \E c \in Configs, failAt \in 0 .. Len(AllocOrder), junk \in Junk :
       Construct(c[1], 0, c[2], c[3], failAt, junk)
  \/ \E w \in Windows(in_len) : WriteInput(w)
  \/ \E o \in Outcomes(acm_order, num_eig) : transform(o)
  \/ Destroy

Spec == Init /\ [][Next]_vars

\* The values of the switch a caller passes: off and on.
Switches == {0, 1}

\* The build with KLT_SUPPORT_EVALN 1: the constructor takes the switch.
NextEvalN ==
  \/ \E c \in Configs, evn \in Switches, failAt \in 0 .. Len(AllocOrder),
        junk \in Junk :
       Construct(c[1], evn, c[2], c[3], failAt, junk)
  \/ \E w \in Windows(in_len) : WriteInput(w)
  \/ \E o \in Outcomes(acm_order, num_eig) : transform(o)
  \/ Destroy

SpecEvalN == Init /\ [][NextEvalN]_vars

\* The driver: it clamps its arguments and constructs the engine with the
\* clamped values (here when the window is within the model's lengths),
\* then writes windows and transforms them.
NextDriver ==
  \/ \E a1, a2 \in Args, a3 \in SmallArgs : ClampArgs(a1, a2, a3)
  \/ \E failAt \in 0 .. Len(AllocOrder), junk \in Junk :
       /\ in_len \in 2 .. MaxInLen
       /\ Construct(in_len, 0, acm_order, num_eig, failAt, junk)
  \/ \E w \in Windows(in_len) : WriteInput(w)
  \/ \E o \in Outcomes(acm_order, num_eig) : transform(o)
  \/ Destroy

SpecDriver == Init /\ [][NextDriver]_vars

---------------------------------------------------------------------------
\* The claims.

Live == phase = "live"
\* transform() has returned or thrown at least once on the live engine.
Called == Live /\ steps # << >>
Succeeded == Called /\ err = NoErr
Thrown == Called /\ err # NoErr

EvalZeroed ==
  \A i \in 0 .. num_eig - 1 : eval_buf[i] = 0 /\ eval_den[i] = 1
KltcZeroed == \A i \in 0 .. num_eig - 1 : kltc_buf[i] = CZero
KltbZeroed == \A x \in 0 .. acm_order * num_eig - 1 : kltb_buf[x] = CZero

\* C1: whenever transform() fails, on return all three output buffers are
\* zero: eval_buf[0..numEig), kltc_buf[0..numEig) and
\* kltb_buf[0..acmOrder*numEig), whatever the failing step and the history.
C1_FailureZeroesAllOutputs ==
  Thrown => (EvalZeroed /\ KltcZeroed /\ KltbZeroed)

\* The stages of a call in their fixed order.
StepOrder ==
  << "acorr", "chptrd", "sstebz", "cstein", "cupmtr", "project", "weight" >>

\* C2: the four eigensolver steps run in the order chptrd, sstebz, cstein,
\* cupmtr; the first one that returns a non-zero status is the last stage
\* the call executes (no later step, no projection, no weighting), the
\* first numEig eigenvalue entries and the whole basis buffer are zero, and
\* the error names that step and carries its status.  A call in which no
\* step fails executes every stage and throws nothing.
C2_FirstFailureEndsCall ==
  Called =>
    /\ Len(steps) <= Len(StepOrder)
    /\ \A p \in 1 .. Len(steps) : steps[p].step = StepOrder[p]
    /\ \A p \in 1 .. Len(steps) :
         steps[p].info # 0 =>
           /\ p = Len(steps)
           /\ p \in 2 .. 5
           /\ err = [step |-> steps[p].step, info |-> steps[p].info]
    /\ err # NoErr =>
         /\ steps[Len(steps)].info # 0
         /\ EvalZeroed
         /\ KltbZeroed
    /\ err = NoErr => Len(steps) = Len(StepOrder)

\* Witness of C2: the second call on an engine, in which the first two
\* steps succeed and the third fails, and which left the outputs zeroed.
C2_Witness ==
  /\ Called
  /\ ncalls = 2
  /\ err.step = "cstein"
  /\ Len(steps) = 4
  /\ EvalZeroed
  /\ KltbZeroed

\* The outputs of a call: the first numEig eigenvalues, the coefficients
\* and the basis.
Outputs(ev, kc, kb) ==
  << [i \in 0 .. num_eig - 1 |-> ev[i]], kc, kb >>

\* A freshly constructed engine of the same configuration, its memory
\* holding junk.
FreshBuffers(junk) ==
  [ac |-> Buf(ac_size(acm_order), <<junk, junk>>),
   eval |-> Buf(acm_order, junk),
   evd |-> Buf(acm_order, 1),
   kltc |-> Buf(num_eig, <<junk, junk>>),
   kltb |-> Buf(kltb_size(acm_order, num_eig), <<junk, junk>>),
   evs |-> Buf(acm_order, Tag("uninit", 0)),
   kbs |-> Buf(num_eig, Tag("uninit", 0)),
   scr |-> [b \in ScratchNames |-> "uninit"]]

\* What a fresh engine produces for the window the last call read, the
\* library behaving as it did in that call.
FreshOutputs(junk) ==
  LET r == Transform(FreshBuffers(junk), in_used, in_len, acm_order, num_eig,
                     [fail |-> 0, info |-> 0, m |-> num_eig_found])
  IN Outputs(r.eval, r.kltc, r.kltb)

\* C3: after any sequence of calls, a transform() whose four steps succeed
\* leaves eval_buf, kltc_buf and kltb_buf equal to what a freshly
\* constructed engine produces for the same input: nothing an earlier call
\* left in a buffer influences the result.
C3_ReuseEqualsFresh ==
  Succeeded =>
    \A junk \in Junk :
      Outputs(eval_buf, kltc_buf, kltb_buf) = FreshOutputs(junk)

\* C4: after every successful transform(), for every i < numEig eigenvalue
\* entry i and basis column i are an eigenpair computed by that same call,
\* column i being the eigenvector of eigenvalue i scaled by coefficient i;
\* also when the search reports a found count other than numEig.
C4_EigenpairsOfThisCall ==
  Succeeded =>
    \A i \in 0 .. num_eig - 1 :
      /\ eval_src[i].gen = "cur"
      /\ kltb_src[i] = eval_src[i]
      /\ eval_buf[i] = EigVal(acm, eval_src[i].idx)
      /\ \A t \in 0 .. acm_order - 1 :
           kltb_buf[i * acm_order + t] =
             CMul(EigComp(acm, eval_src[i].idx, t), kltc_buf[i])

\* C5: when an allocation of the constructor fails, every buffer the same
\* construction attempt had allocated is released before the error reaches
\* the caller: no allocated buffer is left without an owner.
C5_NoLeakOnCtorFailure ==
  phase = "ctor_failed" => heap = {}

\* C6: after a successful transform() the eigenvalues in
\* eval_buf[0..numEig) are exactly the numEig largest of the acmOrder
\* eigenvalues of the autocorrelation matrix, those of the ascending
\* indices acmOrder - numEig + 1 .. acmOrder, which are numEig indices.
C6_LargestEigenvalues ==
  Succeeded =>
    LET top == (acm_order - num_eig + 1) .. acm_order
    IN /\ Cardinality(top) = num_eig
       /\ \A i \in 0 .. num_eig - 1 : eval_src[i].gen = "cur"
       /\ {eval_src[i].idx : i \in 0 .. num_eig - 1} = top
       /\ \A i \in 0 .. num_eig - 1 :
            eval_buf[i] = EigVal(acm, eval_src[i].idx)

\* The sum over t in T of in[t + a] * conj(in[t]).
RECURSIVE LagTerms(_, _, _)
LagTerms(in, a, T) ==
  IF T = {} THEN CZero
  ELSE LET t == CHOOSE x \in T : TRUE
       IN CAdd(CMul(in[t + a], CConj(in[t])), LagTerms(in, a, T \ {t}))

\* The lag-a autocorrelation of the window the last call read.
LagRef(a) == LagTerms(in_used, a, 0 .. in_len - a - 1)

\* The index of row i of column j (j <= i) in lower-triangular packed
\* column-major storage.
PackedIndex(j, i) == j * acm_order - (j * (j - 1)) \div 2 + (i - j)

\* The cells acorr_matrix() writes, in order: the lags, then the copies.
AcWrites ==
  [k \in 1 .. acm_order |-> k - 1] \o
  [k \in 1 .. Len(ToeplitzCopies(acm_order)) |->
     ToeplitzCopies(acm_order)[k][1]]

\* C7: after acorr_matrix() the packed buffer is the Toeplitz matrix of the
\* lags: the entry of column j and row i >= j, at index
\* j*acmOrder - j*(j-1)/2 + (i-j), is the lag-(i-j) value whatever j is;
\* and the fill writes every index below acmOrder*(acmOrder+1)/2 exactly
\* once and none outside.
C7_ToeplitzPacking ==
  Called =>
    /\ \A j \in 0 .. acm_order - 1 : \A i \in j .. acm_order - 1 :
         /\ PackedIndex(j, i) \in DOMAIN acm
         /\ acm[PackedIndex(j, i)] = LagRef(i - j)
    /\ Len(AcWrites) = (acm_order * (acm_order + 1)) \div 2
    /\ {AcWrites[k] : k \in 1 .. Len(AcWrites)} =
         0 .. (acm_order * (acm_order + 1)) \div 2 - 1
    /\ DOMAIN acm = 0 .. (acm_order * (acm_order + 1)) \div 2 - 1

\* Witness of C7: an order-3 matrix whose third column (index 5) and the
\* second entry of whose second column (index 4) hold non-zero lags.
C7_Witness ==
  /\ Called
  /\ acm_order = 3
  /\ acm[4] # CZero
  /\ acm[4] = acm[1]
  /\ acm[5] = acm[0]
  /\ acm[5] # CZero

\* C8: each lag a < acmOrder that acorr_matrix() computes is the sum over
\* t < inputLength - a of input[t+a] * conj(input[t]) of the current input
\* alone, without normalisation; the lag-0 value is real and not negative.
C8_LagSums ==
  Called =>
    /\ \A a \in 0 .. acm_order - 1 : acm[a] = LagRef(a)
    /\ acm[0][2] = 0
    /\ acm[0][1] >= 0

\* Witness of C8: a second call on an engine, on a window with a lag-1
\* value that is not real.
C8_Witness ==
  /\ Called
  /\ ncalls = 2
  /\ acm[0][1] > 0
  /\ acm[1][2] # 0

\* The sum over t in T of in[t] * conj(evec[i * acmOrder + t]).
RECURSIVE ProjTerms(_, _, _)
ProjTerms(in, i, T) ==
  IF T = {} THEN CZero
  ELSE LET t == CHOOSE x \in T : TRUE
       IN CAdd(CMul(in[t], CConj(evec[i * acm_order + t])),
               ProjTerms(in, i, T \ {t}))

\* C9: after a successful transform() each exported basis column i is the
\* unweighted eigenvector i with each of its acmOrder entries multiplied
\* once by coefficient i, and the weighting changed neither kltc_buf (it
\* still holds the coefficients of the unweighted eigenvectors) nor
\* eval_buf.
C9_WeightedBasis ==
  Succeeded =>
    /\ \A i \in 0 .. num_eig - 1 : \A t \in 0 .. acm_order - 1 :
         kltb_buf[i * acm_order + t] =
           CMul(evec[i * acm_order + t], kltc_buf[i])
    /\ kltc_buf = Project(kltc_buf, in_used, evec, acm_order, num_eig)
    /\ Floats(eval_buf, eval_den) = eval_nrm

\* Witness of C9: a successful call with two columns whose coefficients are
\* neither 0 nor 1, so that weighting changes the columns.
C9_Witness ==
  /\ Succeeded
  /\ num_eig >= 2
  /\ num_eig_found = num_eig
  /\ \A i \in 0 .. num_eig - 1 : kltc_buf[i] \notin {CZero, COne}
  /\ kltb_buf # evec

\* C10: after a successful transform() coefficient i is the sum over
\* t < acmOrder of input[t] * conj(eigenvector_i[t]), the eigenvector being
\* basis column i before weighting; the samples at acmOrder and beyond do
\* not change the coefficients.
C10_Coefficients ==
  Succeeded =>
    /\ \A i \in 0 .. num_eig - 1 :
         kltc_buf[i] = ProjTerms(in_used, i, 0 .. acm_order - 1)
    /\ \A t \in acm_order .. in_len - 1 : \A v \in {CZero, COne, CI} :
         Project(kltc_buf, Store(in_used, t, v), evec, acm_order, num_eig)
           = kltc_buf

\* Witness of C10: a successful call on a window longer than the matrix
\* order, with a non-zero sample beyond the order and a non-real coefficient.
C10_Witness ==
  /\ Succeeded
  /\ in_len > acm_order
  /\ in_used[in_len - 1] # CZero
  /\ num_eig_found = num_eig
  /\ kltc_buf[0][2] # 0

\* A call that succeeded on an engine whose switch asks for normalisation.
Normalised == Succeeded /\ eval_normalized # 0

\* The eigenvalues transform() returned, and those eigendecomp() had left.
EvalNow == Floats(eval_buf, eval_den)
EvalBefore == Floats(eval_dec, den_dec)

\* The largest returned eigenvalue is exactly 1.0: one of the first numEig
\* entries is 1.0 and none is above it or not a number.
MaxIsOne ==
  /\ \E i \in 0 .. num_eig - 1 : EvalNow[i] = FOne
  /\ \A i \in 0 .. num_eig - 1 :
       EvalNow[i] # NaN /\ ~FLess(FOne, EvalNow[i])

\* Two retained eigenvalues compare after normalisation as they did before.
OrderKept ==
  \A i, j \in 0 .. num_eig - 1 :
    /\ FLess(EvalBefore[i], EvalBefore[j]) <=> FLess(EvalNow[i], EvalNow[j])
    /\ (EvalBefore[i] = EvalBefore[j]) <=> (EvalNow[i] = EvalNow[j])

\* The coefficients and the basis are those computed from the eigenvectors
\* as eigendecomp() left them: the normalisation stage wrote neither.
BasisAndCoefficientsKept ==
  /\ kltc_buf = Project(kltc_buf, in_used, evec, acm_order, num_eig)
  /\ kltb_buf = Weight(evec, kltc_buf, acm_order, num_eig, 0, 0)

\* C11: with eigenvalue normalisation enabled, after every successful
\* transform() the maximum of eval_buf[0..numEig) is exactly 1.0 and the
\* retained eigenvalues are in the same relative order as before the
\* normalisation, for every input window (also one whose retained
\* eigenvalues are all zero or not positive); normalisation changes neither
\* the basis buffer nor the coefficient buffer.
C11_NormalizedMaxIsOne ==
  Normalised => (MaxIsOne /\ OrderKept /\ BasisAndCoefficientsKept)

\* The driver has clamped its arguments, or the constructor has received
\* its own.
Configured == in_len # 0

\* 2 <= acmOrder <= inputLength and 1 <= numEig <= acmOrder.
ValidConfig ==
  /\ 2 <= acm_order
  /\ acm_order <= in_len
  /\ 1 <= num_eig
  /\ num_eig <= acm_order

\* Index i is inside a buffer of the given number of cells.
InBuffer(i, size) == 0 <= i /\ i < size

\* The constructor gets its buffers: a count that is negative becomes a
\* request posix_memalign refuses, and the constructor throws.
Allocates == ac_size(acm_order) >= 0 /\ kltb_size(acm_order, num_eig) >= 0

\* The indices of the lag loops of acorr_matrix(): ac_buf[aidx],
\* in_buf[w1idx] with w1idx = w2idx + aidx, in_buf[w2idx].
LagIndexesInside ==
  /\ \A aidx \in 0 .. acm_order - 1 : InBuffer(aidx, ac_size(acm_order))
  /\ \A aidx \in 0 .. acm_order - 1 :
       \A w2idx \in 0 .. in_len - aidx - 1 :
         InBuffer(w2idx + aidx, in_len) /\ InBuffer(w2idx, in_len)

\* The indices of the Toeplitz loops: ac_buf[aoidx] and ac_buf[aiidx].
ToeplitzIndexesInside ==
  \A k \in 1 .. Len(ToeplitzCopies(acm_order)) :
    /\ InBuffer(ToeplitzCopies(acm_order)[k][1], ac_size(acm_order))
    /\ InBuffer(ToeplitzCopies(acm_order)[k][2], ac_size(acm_order))

\* The indices of the projection and weighting loops: kltc_buf[cidx],
\* in_buf[tidx] and kltb_buf[cidx*acm_order+tidx].
ProjectionIndexesInside ==
  \A cidx \in 0 .. num_eig - 1 :
    /\ InBuffer(cidx, num_eig)
    /\ \A tidx \in 0 .. acm_order - 1 :
         /\ InBuffer(tidx, in_len)
         /\ InBuffer(IntMul(cidx, acm_order) + tidx,
                     kltb_size(acm_order, num_eig))

\* The buffers of a live engine have the sizes the constructor computed.
SizesAsComputed ==
  /\ DOMAIN in_buf = 0 .. in_len - 1
  /\ DOMAIN ac_buf = 0 .. ac_size(acm_order) - 1
  /\ DOMAIN kltc_buf = 0 .. num_eig - 1
  /\ DOMAIN kltb_buf = 0 .. kltb_size(acm_order, num_eig) - 1

\* C12: for every configuration with 2 <= acmOrder <= inputLength and
\* 1 <= numEig <= acmOrder, every buffer index transform() reads or writes
\* in its own loops is inside the allocated size of its buffer (in_buf
\* below inputLength, ac_buf below acmOrder*(acmOrder+1)/2, kltc_buf below
\* numEig, kltb_buf below acmOrder*numEig); and the clamping of the driver
\* yields such a configuration for every argument triple, the constructor
\* checking no range itself.
C12_IndexesInsideBuffers ==
  Configured =>
    /\ ValidConfig
    /\ Live => SizesAsComputed
    /\ Allocates =>
         /\ LagIndexesInside
         /\ ToeplitzIndexesInside
         /\ ProjectionIndexesInside
         /\ ac_size(acm_order) = (acm_order * (acm_order + 1)) \div 2
         /\ kltb_size(acm_order, num_eig) = acm_order * num_eig

===========================================================================
